---- MODULE Spec2Model ----
(***************************************************************************)
(* Model of the Starknet address checker (src/src/lib.rs).                 *)
(*                                                                         *)
(* check_address is an async function: its body is cut at its suspension   *)
(* points (the await of a remote request, the await of a backoff sleep).   *)
(* Each action below is the code that runs between two suspension points.  *)
(* task[c] holds the inputs, the locals and the observation history of the *)
(* check_address call c.  norm holds one call of the pure function         *)
(* is_valid_starknet_address, and a second call of it on its own output.   *)
(***************************************************************************)
EXTENDS Integers, Sequences, FiniteSets, TLC

VARIABLES task, norm

vars == <<task, norm>>

(***************************************************************************)
(* Bounds of the model and constants of the program.                       *)
(***************************************************************************)
\* retries argument of every retry_operation call site
Retries == 3
\* number of hex digits the address pattern asks for
HexDigits == 64
\* byte length of the "one digit short" form
ShortLen == 65
\* the input addresses have HexDigits-MaxLenDelta .. HexDigits+MaxLenDelta characters after the prefix
MaxLenDelta == 2
\* the node answers class hashes 0..MaxClassHash
MaxClassHash == 1
\* the node answers classes with at most MaxEntryPoints external entry points
MaxEntryPoints == 3

\* a class hash local that holds no value yet
NoHash == -1

\* the check_address call in progress
Calls == {"A"}

(***************************************************************************)
(* Text.  A string is a sequence of characters, a character a one-letter   *)
(* string.  The only non-ASCII character of the inputs, written "U+00E9",  *)
(* takes two bytes.                                                        *)
(***************************************************************************)
Digits == {"0", "1", "2", "3", "4", "5", "6", "7", "8", "9"}
LowerHex == {"a", "b", "c", "d", "e", "f"}
UpperHex == {"A", "B", "C", "D", "E", "F"}

is_ascii_hexdigit(ch) == ch \in Digits \cup LowerHex \cup UpperHex

ByteWidth(ch) == IF ch = "U+00E9" THEN 2 ELSE 1

\* str::len: the sum of the byte widths of the characters
ByteLen(s) ==
    LET upto[k \in 0..Len(s)] == IF k = 0 THEN 0 ELSE upto[k - 1] + ByteWidth(s[k])
    IN  upto[Len(s)]

Rep(ch, n) == [i \in 1..n |-> ch]

starts_with_0x(s) == Len(s) >= 2 /\ s[1] = "0" /\ s[2] = "x"

\* faulty variant: the pattern without its closing anchor, ^0x[0-9a-fA-F]{64}
re_is_match_unanchored(s) ==
    /\ Len(s) >= 2 + HexDigits
    /\ starts_with_0x(s)
    /\ \A i \in 3..(2 + HexDigits) : is_ascii_hexdigit(s[i])

\* the regular expression ^0x[0-9a-fA-F]{64}$
re_is_match(s) ==
    /\ Len(s) = 2 + HexDigits
    /\ starts_with_0x(s)
    /\ \A i \in 3..Len(s) : is_ascii_hexdigit(s[i])

\* &s[n..] panics unless byte offset n is a character boundary of s
str_slice_from_panics(s, n) == ~ \E k \in 0..Len(s) : ByteLen(SubSeq(s, 1, k)) = n

\* TRUE when is_valid_starknet_address reaches &address[2..] and the slice panics
is_valid_starknet_address_panics(address) ==
    /\ ~re_is_match(address)
    /\ ByteLen(address) = ShortLen /\ starts_with_0x(address)
    /\ str_slice_from_panics(address, 2)

\* faulty variant: the short form is accepted and returned as it came
is_valid_starknet_address_unpadded(address) ==
    IF re_is_match(address) THEN <<TRUE, address>>
    ELSE IF ByteLen(address) = ShortLen /\ starts_with_0x(address)
         THEN LET without_prefix == SubSeq(address, 3, Len(address))
                  fixed_address == <<"0", "x", "0">> \o without_prefix
              IN  IF (\A i \in 1..Len(without_prefix) : is_ascii_hexdigit(without_prefix[i]))
                     /\ re_is_match(fixed_address)
                  THEN <<TRUE, address>>
                  ELSE <<FALSE, address>>
         ELSE <<FALSE, address>>

\* faulty variant: only the full pattern, without the branch for the short form
is_valid_starknet_address_exact_only(address) ==
    IF re_is_match(address) THEN <<TRUE, address>> ELSE <<FALSE, address>>

\* faulty variant: format!("0{}") and no second match of the pattern
is_valid_starknet_address_drops_prefix(address) ==
    IF re_is_match(address) THEN <<TRUE, address>>
    ELSE IF ByteLen(address) = ShortLen /\ starts_with_0x(address)
         THEN LET without_prefix == SubSeq(address, 3, Len(address))
                  fixed_address == <<"0">> \o without_prefix
              IN  IF \A i \in 1..Len(without_prefix) : is_ascii_hexdigit(without_prefix[i])
                  THEN <<TRUE, fixed_address>>
                  ELSE <<FALSE, address>>
         ELSE <<FALSE, address>>

\* is_valid_starknet_address: <<valid, text>>
is_valid_starknet_address(address) ==
    IF re_is_match(address) THEN <<TRUE, address>>
    ELSE IF ByteLen(address) = ShortLen /\ starts_with_0x(address)
         THEN LET without_prefix == SubSeq(address, 3, Len(address))
                  fixed_address == <<"0", "x", "0">> \o without_prefix
              IN  IF (\A i \in 1..Len(without_prefix) : is_ascii_hexdigit(without_prefix[i]))
                     /\ re_is_match(fixed_address)
                  THEN <<TRUE, fixed_address>>
                  ELSE <<FALSE, address>>
         ELSE <<FALSE, address>>

(***************************************************************************)
(* parse_address: FieldElement::from_hex_be.  The text is stripped of its  *)
(* prefix, padded on the left to 64 digits and read as a big-endian        *)
(* number, which must be below the field's prime                           *)
(* 0x0800000000000011000...0001.                                           *)
(***************************************************************************)
HexVal(ch) ==
    CASE ch \in {"a", "A"} -> 10 [] ch \in {"b", "B"} -> 11 [] ch \in {"c", "C"} -> 12
      [] ch \in {"d", "D"} -> 13 [] ch \in {"e", "E"} -> 14 [] ch \in {"f", "F"} -> 15
      [] ch = "0" -> 0 [] ch = "1" -> 1 [] ch = "2" -> 2 [] ch = "3" -> 3 [] ch = "4" -> 4
      [] ch = "5" -> 5 [] ch = "6" -> 6 [] ch = "7" -> 7 [] ch = "8" -> 8 [] ch = "9" -> 9

PrimeDigits ==
    [i \in 1..HexDigits |->
        CASE i = 2 -> 8 [] i = 15 -> 1 [] i = 16 -> 1 [] i = HexDigits -> 1 [] OTHER -> 0]

DigitsLess(a, b) ==
    \E i \in 1..Len(a) : a[i] < b[i] /\ \A j \in 1..(i - 1) : a[j] = b[j]

\* TRUE when parse_address returns Ok
parse_address_ok(address) ==
    LET body == IF starts_with_0x(address) THEN SubSeq(address, 3, Len(address)) ELSE address
    IN  /\ Len(body) <= HexDigits
        /\ \A i \in 1..Len(body) : is_ascii_hexdigit(body[i])
        /\ LET padded == Rep("0", HexDigits - Len(body)) \o body
           IN  DigitsLess([i \in 1..HexDigits |-> HexVal(padded[i])], PrimeDigits)

(***************************************************************************)
(* get_provider: the endpoint is an Option (a sequence of length 0 or 1).  *)
(***************************************************************************)
GoodUrl == "https://free-rpc.nethermind.io/sepolia-juno"
BadUrl == "free-rpc.nethermind.io"

\* Url::parse: a text without a scheme is a relative URL without a base
url_parse_ok(u) == u = GoodUrl

\* faulty variant: a missing endpoint falls back to a default one
get_provider_error_default_url(options) ==
    IF options.rpc_url = <<>> THEN ""
    ELSE IF ~url_parse_ok(options.rpc_url[1]) THEN "relative URL without a base"
    ELSE ""

\* "" when the provider is built, else the error
get_provider_error(options) ==
    IF options.rpc_url = <<>> THEN "Missing node URL"
    ELSE IF ~url_parse_ok(options.rpc_url[1]) THEN "relative URL without a base"
    ELSE ""

(***************************************************************************)
(* Contract classes.  A class is Legacy or Sierra and lists its external   *)
(* entry points; a selector is the starknet_keccak of a function name.     *)
(***************************************************************************)
get_selector_from_name(name) ==
    CASE name = "__execute__" -> "0x15d40a3d6ca2ac30f4031e42be28da9b056fef9bb7357ac5e85627ee876e5ad"
      [] name = "__validate__" -> "0x162da33a4585851fe8d3af3c2a9c60b557814e221e0d4f30ff0b2189d9c7775"
      [] name = "transfer" -> "0x83afd3f4caedc6eebf44246fe54e38c95e3179a5ec9ea81740eca5b482d12e"

Selectors == {get_selector_from_name(n) : n \in {"__execute__", "__validate__", "transfer"}}

EntryPoints == [selector : Selectors]

SeqsUpTo(S, n) == UNION {[1..k -> S] : k \in 0..n}

Classes == [variant : {"Legacy", "Sierra"}, external : SeqsUpTo(EntryPoints, MaxEntryPoints)]

ClassHashes == 0..MaxClassHash

\* lines 76-89: the selectors of the external entry points, for either variant
external_selectors(contract_class) ==
    CASE contract_class.variant = "Legacy" ->
           [i \in 1..Len(contract_class.external) |-> contract_class.external[i].selector]
      [] contract_class.variant = "Sierra" ->
           [i \in 1..Len(contract_class.external) |-> contract_class.external[i].selector]

required_selectors ==
    <<get_selector_from_name("__execute__"), get_selector_from_name("__validate__")>>

contains(v, x) == \E i \in 1..Len(v) : v[i] = x

\* faulty variant: any() instead of all()
has_any_required_selector(contract_class) ==
    \E i \in 1..Len(required_selectors) :
        contains(external_selectors(contract_class), required_selectors[i])

\* lines 96-98
has_required_selectors(contract_class) ==
    \A i \in 1..Len(required_selectors) :
        contains(external_selectors(contract_class), required_selectors[i])

(***************************************************************************)
(* The state of one check_address call.                                    *)
(*   pc        "idle" (never started), "start", "invoke" (a remote request *)
(*             is in flight), "sleep" (a backoff sleep is running), "done" *)
(*   site      the retry_operation call in progress: "ca_hash" (line 190), *)
(*             "sw_hash" (line 49), "sw_class" (line 65)                   *)
(*   caller    who called the is_smart_wallet in progress: "check_address" *)
(*             (line 206) or "is_smart_contract" (line 111, from line 213) *)
(*   history   invocations and waits of the retry_operation in progress    *)
(*             (or of the last one, once the call is done), the            *)
(*             retry_operation calls entered (gateways), the answers the   *)
(*             node gave (rpcLog), what the last is_smart_wallet returned  *)
(*             (is_wallet), whether a retry_operation gave up (exhausted), *)
(*             the time units slept in all backoff waits so far (slept),   *)
(*             a stopwatch that runs only for a call that is being timed   *)
(*             (metered)                                                   *)
(***************************************************************************)
NoResponse ==
    [is_valid_address |-> FALSE, is_smart_wallet |-> FALSE, is_smart_contract |-> FALSE,
     message |-> ""]

NewTask(address, options, pc) ==
    [address |-> address, options |-> options, pc |-> pc, site |-> "none",
     caller |-> "none", attempt |-> 0, class_hash |-> NoHash, sw_class_hash |-> NoHash,
     response |-> NoResponse, outcome |-> "pending", error |-> "",
     invocations |-> 0, waits |-> <<>>, gateways |-> <<>>, rpcLog |-> <<>>,
     is_wallet |-> FALSE, exhausted |-> FALSE, metered |-> FALSE, slept |-> 0]

ReturnOk(st, response) ==
    [st EXCEPT !.pc = "done", !.site = "none", !.caller = "none",
               !.outcome = "Ok", !.response = response]

ReturnErr(st, e) ==
    [st EXCEPT !.pc = "done", !.site = "none", !.caller = "none",
               !.outcome = "Err", !.error = e]

(***************************************************************************)
(* retry_operation (lines 23-40).                                          *)
(***************************************************************************)
\* line 28, up to the first operation().await
retry_operation_enter(st, site) ==
    [st EXCEPT !.pc = "invoke", !.site = site, !.attempt = 0,
               !.invocations = 0, !.waits = <<>>, !.gateways = Append(@, site)]

\* faulty variants of the guard: one retry too many, one too few
may_retry_once_more(attempt, retries) == attempt <= retries

may_retry_once_less(attempt, retries) == attempt + 1 < retries

\* line 32: the guard of the retrying arm
may_retry(attempt, retries) == attempt < retries

\* faulty variant: the delay is the attempt index itself
backoff_delay_zero_based(attempt) == attempt

\* line 33
backoff_delay(attempt) == attempt + 1

\* faulty variant: the last error is swallowed instead of returned
retry_operation_failed_swallowed(st) ==
    LET t == [st EXCEPT !.invocations = @ + 1]
    IN  IF may_retry(st.attempt, Retries)
        THEN [t EXCEPT !.pc = "sleep", !.waits = Append(@, backoff_delay(st.attempt)),
                       !.slept = IF st.metered THEN @ + backoff_delay(st.attempt) ELSE @]
        ELSE ReturnOk([t EXCEPT !.exhausted = TRUE], st.response)

\* lines 30-37, operation() returned Err
retry_operation_failed(st) ==
    LET t == [st EXCEPT !.invocations = @ + 1]
    IN  IF may_retry(st.attempt, Retries)
        THEN [t EXCEPT !.pc = "sleep", !.waits = Append(@, backoff_delay(st.attempt)),
                       !.slept = IF st.metered THEN @ + backoff_delay(st.attempt) ELSE @]
        ELSE ReturnErr([t EXCEPT !.exhausted = TRUE], "Max retries reached")

\* faulty variant: attempt is declared inside the loop, so each turn starts from 0
retry_operation_woke_restart(st) ==
    [st EXCEPT !.pc = "invoke", !.attempt = 0, !.invocations = 0, !.waits = <<>>]

\* lines 34-35, the sleep is over
retry_operation_woke(st) == [st EXCEPT !.pc = "invoke", !.attempt = @ + 1]

(***************************************************************************)
(* The responses of check_address (lines 182-220).  The messages are       *)
(* written without their pictographs.                                      *)
(***************************************************************************)
InvalidFormatResponse(response) ==
    [response EXCEPT !.message = "Invalid address format"]

NoContractResponse(response) ==
    [response EXCEPT !.message = "No contract at this address"]

WalletResponse(response) ==
    [response EXCEPT !.is_valid_address = TRUE, !.is_smart_wallet = TRUE,
                     !.message = "Is Smart Wallet: Yes\nYou are interacting with a smart-wallet"]

\* faulty variant: is_valid_address is left unset
ContractResponse_not_valid(response) ==
    [response EXCEPT !.is_smart_contract = TRUE,
                     !.message = "Is Smart Wallet: No\nIs Smart Contract: Yes\nYou are interacting with a smart-contract"]

ContractResponse(response) ==
    [response EXCEPT !.is_valid_address = TRUE, !.is_smart_contract = TRUE,
                     !.message = "Is Smart Wallet: No\nIs Smart Contract: Yes\nYou are interacting with a smart-contract"]

NeitherResponse(response) ==
    [response EXCEPT !.message = "Is Smart Wallet: No\nIs Smart Contract: No\nThis address is not a smart wallet or smart contract"]

(***************************************************************************)
(* is_smart_wallet (lines 45-105) and is_smart_contract (lines 110-113).   *)
(***************************************************************************)
\* lines 46-58, up to the first request of the class hash
is_smart_wallet_enter(st, caller) ==
    IF get_provider_error(st.options) # "" THEN ReturnErr(st, get_provider_error(st.options))
    ELSE IF ~parse_address_ok(st.address) THEN ReturnErr(st, "Invalid address format")
    ELSE retry_operation_enter([st EXCEPT !.caller = caller, !.sw_class_hash = NoHash], "sw_hash")

\* line 112
is_smart_contract_result(is_wallet) == ~is_wallet

\* lines 206-223 and 111-112: is_smart_wallet returned Ok(is_wallet) to its caller
is_smart_wallet_return(st0, is_wallet) ==
    LET st == [st0 EXCEPT !.is_wallet = is_wallet]
    IN  IF st.caller = "check_address"
        THEN IF is_wallet
             THEN ReturnOk(st, WalletResponse(st.response))
             ELSE is_smart_wallet_enter(st, "is_smart_contract")
        ELSE IF is_smart_contract_result(is_wallet)
             THEN ReturnOk(st, ContractResponse(st.response))
             ELSE ReturnOk(st, NeitherResponse(st.response))

\* faulty variant: the zero class hash is not recognised
is_zero_never(class_hash) == FALSE

\* lines 60 and 201
is_zero(class_hash) == class_hash = 0

\* faulty variant: a zero class hash makes is_smart_wallet answer true
is_smart_wallet_got_hash_zero_is_wallet(st, class_hash) ==
    IF is_zero(class_hash)
    THEN is_smart_wallet_return(st, TRUE)
    ELSE retry_operation_enter([st EXCEPT !.sw_class_hash = class_hash], "sw_class")

\* lines 58-74: the class hash arrived inside is_smart_wallet
is_smart_wallet_got_hash(st, class_hash) ==
    IF is_zero(class_hash)
    THEN is_smart_wallet_return(st, FALSE)
    ELSE retry_operation_enter([st EXCEPT !.sw_class_hash = class_hash], "sw_class")

\* lines 74-104: the class arrived inside is_smart_wallet
is_smart_wallet_got_class(st, contract_class) ==
    is_smart_wallet_return(st, has_required_selectors(contract_class))

(***************************************************************************)
(* check_address (lines 174-224).                                          *)
(***************************************************************************)
\* faulty variant: the provider is built before the address is validated
check_address_enter_provider_first(st) ==
    IF get_provider_error(st.options) # ""
    THEN ReturnErr(st, get_provider_error(st.options))
    ELSE IF ~is_valid_starknet_address(st.address)[1]
    THEN ReturnOk(st, InvalidFormatResponse(st.response))
    ELSE IF ~parse_address_ok(st.address) THEN ReturnErr(st, "Invalid address format")
    ELSE retry_operation_enter(st, "ca_hash")

\* lines 175-199, up to the first request of the class hash
check_address_enter(st) ==
    IF ~is_valid_starknet_address(st.address)[1]
    THEN ReturnOk(st, InvalidFormatResponse(st.response))
    ELSE IF get_provider_error(st.options) # ""
    THEN ReturnErr(st, get_provider_error(st.options))
    ELSE IF ~parse_address_ok(st.address) THEN ReturnErr(st, "Invalid address format")
    ELSE retry_operation_enter(st, "ca_hash")

\* lines 199-206: the class hash arrived inside check_address
check_address_got_hash(st, class_hash) ==
    IF is_zero(class_hash)
    THEN ReturnOk([st EXCEPT !.class_hash = class_hash], NoContractResponse(st.response))
    ELSE is_smart_wallet_enter([st EXCEPT !.class_hash = class_hash], "check_address")

(***************************************************************************)
(* The node's answers, as the history keeps them.                          *)
(***************************************************************************)
SelectorSet(contract_class) ==
    {contract_class.external[i].selector : i \in 1..Len(contract_class.external)}

HashAnswer(site, class_hash) ==
    [method |-> "get_class_hash_at", site |-> site, class_hash |-> class_hash]

ClassAnswer(site, class_hash, contract_class) ==
    [method |-> "get_class", site |-> site, class_hash |-> class_hash,
     variant |-> contract_class.variant, selectors |-> SelectorSet(contract_class)]

Logged(st, answer) == [st EXCEPT !.invocations = @ + 1, !.rpcLog = Append(@, answer)]

(***************************************************************************)
(* Actions.                                                                *)
(***************************************************************************)
\* check_address is polled for the first time
CheckAddressStart(c) ==
    /\ task[c].pc = "start"
    /\ task' = [task EXCEPT ![c] = check_address_enter(@)]
    /\ UNCHANGED norm

\* get_class_hash_at answers Ok(class_hash); retry_operation returns it (line 31)
ClassHashArrives(c) ==
    /\ task[c].pc = "invoke"
    /\ task[c].site \in {"ca_hash", "sw_hash"}
    /\ \E class_hash \in ClassHashes :
         LET st == Logged(task[c], HashAnswer(task[c].site, class_hash))
         IN  task' = [task EXCEPT ![c] =
                         IF st.site = "ca_hash"
                         THEN check_address_got_hash(st, class_hash)
                         ELSE is_smart_wallet_got_hash(st, class_hash)]
    /\ UNCHANGED norm

\* get_class answers Ok(contract_class); retry_operation returns it (line 31)
ClassArrives(c) ==
    /\ task[c].pc = "invoke"
    /\ task[c].site = "sw_class"
    /\ \E contract_class \in Classes :
         LET st == Logged(task[c], ClassAnswer(task[c].site, task[c].sw_class_hash, contract_class))
         IN  task' = [task EXCEPT ![c] = is_smart_wallet_got_class(st, contract_class)]
    /\ UNCHANGED norm

\* the request answers Err
RequestFails(c) ==
    /\ task[c].pc = "invoke"
    /\ task' = [task EXCEPT ![c] = retry_operation_failed(@)]
    /\ UNCHANGED norm

\* faulty variant: attempt is one counter shared by all the calls
SleepEnds_shared_attempt(c) ==
    /\ task[c].pc = "sleep"
    /\ task' = [d \in DOMAIN task |->
                  IF d = c THEN retry_operation_woke(task[d])
                  ELSE IF task[d].pc \in {"invoke", "sleep"}
                  THEN [task[d] EXCEPT !.attempt = @ + 1]
                  ELSE task[d]]
    /\ UNCHANGED norm

\* the backoff sleep is over
SleepEnds(c) ==
    /\ task[c].pc = "sleep"
    /\ task' = [task EXCEPT ![c] = retry_operation_woke(@)]
    /\ UNCHANGED norm

(***************************************************************************)
(* Inputs.                                                                 *)
(***************************************************************************)
Prefixes == {<<"0", "x">>, <<"0", "X">>, <<>>}
FirstChars == {"0", "8"}
FillChars == {"0", "1", "F", "g", "U+00E9"}
BodyLens == (HexDigits - MaxLenDelta)..(HexDigits + MaxLenDelta)

Addresses ==
    {p \o <<f>> \o Rep(ch, n - 1) : p \in Prefixes, f \in FirstChars, ch \in FillChars, n \in BodyLens}

Options == [rpc_url : {<<>>, <<BadUrl>>, <<GoodUrl>>}]

IdleTask == NewTask(<<>>, [rpc_url |-> <<>>], "idle")

IdleNorm == [pc |-> "idle", input |-> <<>>, result |-> <<FALSE, <<>>>>,
             again |-> <<FALSE, <<>>>>, panicked |-> FALSE]

\* one check_address call
Init ==
    /\ \E address \in Addresses, options \in Options :
         task = [c \in Calls |-> IF c = "A" THEN NewTask(address, options, "start") ELSE IdleTask]
    /\ norm = IdleNorm

Next ==
    \E c \in Calls :
        \/ CheckAddressStart(c)
        \/ ClassHashArrives(c)
        \/ ClassArrives(c)
        \/ RequestFails(c)
        \/ SleepEnds(c)

Spec == Init /\ [][Next]_vars

(***************************************************************************)
(* is_valid_starknet_address on its own: one call on an input text, then a *)
(* call on the text the first call returned.                               *)
(***************************************************************************)
\* the 63-digit address of test_is_valid_starket_address
TestAddress63 ==
    <<"0", "x", "0", "0", "6", "a", "0", "6", "c", "a", "6", "8", "6", "c",
    "6", "1", "9", "3", "a", "3", "4", "2", "0", "3", "3", "3", "4", "0",
    "5", "f", "e", "6", "b", "f", "b", "0", "6", "5", "1", "9", "7", "d",
    "6", "7", "0", "c", "6", "4", "5", "b", "d", "c", "0", "7", "2", "2",
    "a", "3", "6", "d", "8", "8", "9", "8", "2">>

NormPrefixes == Prefixes \cup {<<"x", "0">>, <<"0">>}
NormFillChars == {"0", "a", "F"}
OddChars == {"0", "f", "G", "x", " ", "U+00E9"}
OddPositions(n) == {1, 2, n}

\* the texts of zero to three characters
TinyInputs == {<<>>, <<"0">>, <<"0", "x">>, <<"0", "x", "0">>}

\* a prefix, then n characters that are all the same but one
NormInputs ==
    {p \o [i \in 1..n |-> IF i = k THEN odd ELSE fill] :
        <<p, fill, odd, n, k>> \in
            {t \in NormPrefixes \X NormFillChars \X OddChars \X BodyLens \X (1..(HexDigits + MaxLenDelta)) :
                t[5] \in OddPositions(t[4])}}
    \cup TinyInputs \cup {TestAddress63}

InitNorm ==
    /\ task = [c \in Calls |-> IdleTask]
    /\ \E input \in NormInputs : norm = [IdleNorm EXCEPT !.pc = "call", !.input = input]

\* is_valid_starknet_address(input)
Normalize ==
    /\ norm.pc = "call"
    /\ norm' = IF is_valid_starknet_address_panics(norm.input)
               THEN [norm EXCEPT !.pc = "panicked", !.panicked = TRUE]
               ELSE [norm EXCEPT !.pc = "returned", !.result = is_valid_starknet_address(norm.input)]
    /\ UNCHANGED task

\* is_valid_starknet_address(text), text the one an accepting call returned
Renormalize ==
    /\ norm.pc = "returned"
    /\ norm.result[1]
    /\ norm' = IF is_valid_starknet_address_panics(norm.result[2])
               THEN [norm EXCEPT !.pc = "panicked", !.panicked = TRUE]
               ELSE [norm EXCEPT !.pc = "again", !.again = is_valid_starknet_address(norm.result[2])]
    /\ UNCHANGED task

NextNorm == Normalize \/ Renormalize

SpecNorm == InitNorm /\ [][NextNorm]_vars

(***************************************************************************)
(* One check_address call with a stopwatch on its backoff waits.           *)
(***************************************************************************)
\* an address that is accepted and converts to a field element: 0x0 and 63 zeros
TimedAddress == <<"0", "x">> \o Rep("0", HexDigits)

InitWaits ==
    /\ task = [c \in Calls |->
                 [NewTask(TimedAddress, [rpc_url |-> <<GoodUrl>>], "start") EXCEPT !.metered = TRUE]]
    /\ norm = IdleNorm

SpecWaits == InitWaits /\ [][Next]_vars

(***************************************************************************)
(* One check_address call on a runtime that keeps polling it: the call is  *)
(* started, every request it awaits completes (with an answer or with an   *)
(* error) and every sleep it awaits ends.                                  *)
(***************************************************************************)
Fairness ==
    \A c \in Calls :
        /\ WF_vars(CheckAddressStart(c))
        /\ WF_vars(ClassHashArrives(c) \/ ClassArrives(c) \/ RequestFails(c))
        /\ WF_vars(SleepEnds(c))

SpecLive == Init /\ [][Next]_vars /\ Fairness

(***************************************************************************)
(* Two check_address calls for different addresses, polled in any order by *)
(* the runtime.  The node answers get_class_hash_at with zero or with the  *)
(* largest class hash, and get_class with a class that has no external     *)
(* entry point or exactly the two required ones.                           *)
(***************************************************************************)
ConcCalls == {"A", "B"}

\* call A has a 64-digit address, call B a 63-digit one
ConcAddress(c) ==
    IF c = "A" THEN <<"0", "x">> \o Rep("0", HexDigits)
    ELSE <<"0", "x">> \o Rep("1", HexDigits - 1)

InitConc ==
    /\ \E opts \in [ConcCalls -> Options] :
          task = [c \in ConcCalls |-> NewTask(ConcAddress(c), opts[c], "start")]
    /\ norm = IdleNorm

SmallAnswers(c) ==
    \A i \in 1..Len(task[c].rpcLog) :
        /\ task[c].rpcLog[i].class_hash \in {0, MaxClassHash}
        /\ task[c].rpcLog[i].method = "get_class" =>
              task[c].rpcLog[i].selectors \in {{}, {required_selectors[1], required_selectors[2]}}

NextConc ==
    \E c \in ConcCalls :
        /\ \/ CheckAddressStart(c)
           \/ ClassHashArrives(c)
           \/ ClassArrives(c)
           \/ RequestFails(c)
           \/ SleepEnds(c)
        /\ SmallAnswers(c)'

SpecConc == InitConc /\ [][NextConc]_vars

(***************************************************************************)
(* Properties.                                                             *)
(***************************************************************************)
Done(c) == task[c].pc = "done"

ReturnedResult(c) == Done(c) /\ task[c].outcome = "Ok"

Flags(response) ==
    <<response.is_valid_address, response.is_smart_wallet, response.is_smart_contract>>

Last(s) == s[Len(s)]

\* the node's first answer of the call: the class hash of line 190
FirstHashKnown(c) == Len(task[c].rpcLog) >= 1

FirstHash(c) == task[c].rpcLog[1].class_hash

IsHashSite(site) == site \in {"ca_hash", "sw_hash"}

ClassAnswers(c) == {i \in 1..Len(task[c].rpcLog) : task[c].rpcLog[i].method = "get_class"}

HashAnswers(c) == {i \in 1..Len(task[c].rpcLog) : task[c].rpcLog[i].method = "get_class_hash_at"}

HasBoth(selectors) ==
    /\ get_selector_from_name("__execute__") \in selectors
    /\ get_selector_from_name("__validate__") \in selectors

\* C1: a call whose first class-hash answer is non-zero and that returns a
\* result returns the wallet result (true, true, false) or the contract
\* result (true, false, true), never a third one.
C1_NoThirdOutcome ==
    \A c \in Calls :
        (ReturnedResult(c) /\ FirstHashKnown(c) /\ FirstHash(c) # 0)
            => Flags(task[c].response) \in {<<TRUE, TRUE, FALSE>>, <<TRUE, FALSE, TRUE>>}

\* C2: a result with is_smart_contract = TRUE is returned only if the call
\* fetched, for a non-zero class hash, a class that lacks __execute__ or
\* __validate__, and none of its class-hash lookups answered zero.
C2_ContractOnlyForFetchedNonWalletClass ==
    \A c \in Calls :
        (ReturnedResult(c) /\ task[c].response.is_smart_contract)
            => /\ \E i \in ClassAnswers(c) :
                    /\ task[c].rpcLog[i].class_hash # 0
                    /\ ~HasBoth(task[c].rpcLog[i].selectors)
               /\ \A i \in HashAnswers(c) : task[c].rpcLog[i].class_hash # 0

\* C3: a call enters retry_operation once for the class hash and then, if the
\* hash is non-zero, once for the class, in that order; no fetch that has
\* succeeded is made again.
C3_EachFetchOnce ==
    \A c \in Calls :
        /\ \/ task[c].gateways = <<>>
           \/ Len(task[c].gateways) = 1 /\ IsHashSite(task[c].gateways[1])
           \/ /\ Len(task[c].gateways) = 2
              /\ IsHashSite(task[c].gateways[1])
              /\ task[c].gateways[2] = "sw_class"
        /\ Cardinality(HashAnswers(c)) <= 1
        /\ Cardinality(ClassAnswers(c)) <= 1

\* C4: with retries = 3, a retry_operation whose operation fails every time
\* invokes it exactly 4 times and then returns the 'Max retries reached'
\* error: while it is still running it has made at most 3 failed invocations,
\* and it gives up with exactly 4.
C4_FourAttemptsThenError ==
    \A c \in Calls :
        /\ task[c].invocations <= Retries + 1
        /\ task[c].pc \in {"invoke", "sleep"} => task[c].invocations <= Retries
        /\ task[c].exhausted =>
              /\ task[c].invocations = Retries + 1
              /\ Done(c) /\ task[c].outcome = "Err"
              /\ task[c].error = "Max retries reached"

C4_Witness ==
    \E c \in Calls :
        task[c].exhausted /\ task[c].invocations = 4 /\ task[c].error = "Max retries reached"

\* a request of call c is answered Ok in this step
Answered(c) == Len(task'[c].rpcLog) = Len(task[c].rpcLog) + 1

\* C5: a retry_operation whose operation fails k <= retries times and then
\* succeeds returns the value after exactly k waits: it never gives up before
\* more than retries failures, every failure so far was followed by one wait,
\* and the success is followed by no wait and hands the value on.
C5_WaitsEqualFailures ==
    /\ [](\A c \in Calls :
            /\ task[c].exhausted => task[c].invocations > Retries
            /\ task[c].pc \in {"invoke", "sleep"} => Len(task[c].waits) = task[c].invocations)
    /\ [][\A c \in Calls :
            Answered(c) =>
                /\ Len(task[c].waits) = task[c].invocations
                /\ task[c].invocations <= Retries
                /\ task'[c].pc # "sleep"
                /\ task'[c].waits \in {<<>>, task[c].waits}
                /\ task'[c].outcome # "Err"
                /\ task[c].site = "ca_hash" => task'[c].class_hash = Last(task'[c].rpcLog).class_hash
                /\ task'[c].site = "sw_class" => task'[c].sw_class_hash = Last(task'[c].rpcLog).class_hash
         ]_vars

C5_Witness ==
    \E c \in Calls :
        /\ ReturnedResult(c) /\ task[c].response.is_smart_wallet
        /\ task[c].invocations = 3 /\ Len(task[c].waits) = 2

\* C6: an address that fails format validation gets the all-false result with
\* the 'Invalid address format' message, whatever the endpoint, and no remote
\* call is made.
C6_InvalidFormatNoRemoteCall ==
    \A c \in Calls :
        (task[c].pc \notin {"idle", "start"} /\ ~is_valid_starknet_address(task[c].address)[1])
            => /\ ReturnedResult(c)
               /\ Flags(task[c].response) = <<FALSE, FALSE, FALSE>>
               /\ task[c].response.message = "Invalid address format"
               /\ task[c].gateways = <<>> /\ task[c].rpcLog = <<>> /\ task[c].invocations = 0

C6_Witness ==
    \E c \in Calls :
        /\ Done(c) /\ ~is_valid_starknet_address(task[c].address)[1]
        /\ task[c].options.rpc_url = <<>>
        /\ task[c].response.message = "Invalid address format"

\* C7: when the first class-hash fetch answers zero the call returns the
\* all-false result with the 'No contract at this address' message and
\* fetches no class definition.
C7_ZeroHashNoContract ==
    \A c \in Calls :
        (FirstHashKnown(c) /\ FirstHash(c) = 0)
            => /\ ReturnedResult(c)
               /\ Flags(task[c].response) = <<FALSE, FALSE, FALSE>>
               /\ task[c].response.message = "No contract at this address"
               /\ task[c].gateways = <<"ca_hash">>
               /\ Len(task[c].rpcLog) = 1

C7_Witness ==
    \E c \in Calls :
        /\ FirstHashKnown(c) /\ FirstHash(c) = 0 /\ Done(c)
        /\ task[c].response.message = "No contract at this address"

\* C8: once a retry_operation of the call has given up, the call has returned
\* an error and no result, and it makes no further remote call.
C8_ExhaustedIsError ==
    /\ [](\A c \in Calls :
            task[c].exhausted =>
                /\ Done(c) /\ task[c].outcome = "Err"
                /\ task[c].response = NoResponse)
    /\ [][\A c \in Calls :
            task[c].exhausted =>
                /\ task'[c].rpcLog = task[c].rpcLog
                /\ task'[c].gateways = task[c].gateways
                /\ task'[c].invocations = task[c].invocations
         ]_vars

C8_Witness ==
    \E c \in Calls :
        /\ task[c].exhausted /\ task[c].outcome = "Err"
        /\ Last(task[c].gateways) = "sw_class"

\* C9: every result has the flags (false,false,false), (true,true,false) or
\* (true,false,true).
C9_ThreeCombinations ==
    \A c \in Calls :
        ReturnedResult(c) =>
            Flags(task[c].response) \in
                {<<FALSE, FALSE, FALSE>>, <<TRUE, TRUE, FALSE>>, <<TRUE, FALSE, TRUE>>}

C9_Witness ==
    \E c \in Calls :
        ReturnedResult(c) /\ Flags(task[c].response) = <<TRUE, FALSE, TRUE>>

\* C10: for a fetched class of either variant, is_smart_wallet returns true
\* exactly when both the __execute__ and the __validate__ selector are among
\* the selectors of its external entry points.
C10_WalletIffBothSelectors ==
    \A c \in Calls :
        (task[c].rpcLog # <<>> /\ Last(task[c].rpcLog).method = "get_class")
            => task[c].is_wallet = HasBoth(Last(task[c].rpcLog).selectors)

C10_Witness ==
    \E c \in Calls :
        /\ task[c].rpcLog # <<>> /\ Last(task[c].rpcLog).method = "get_class"
        /\ Last(task[c].rpcLog).variant = "Sierra"
        /\ Last(task[c].rpcLog).selectors = Selectors
        /\ task[c].is_wallet = TRUE

(***************************************************************************)
(* Claims about is_valid_starknet_address, checked under SpecNorm.         *)
(***************************************************************************)
HexChars ==
    {"0", "1", "2", "3", "4", "5", "6", "7", "8", "9",
     "a", "b", "c", "d", "e", "f", "A", "B", "C", "D", "E", "F"}

\* "0x" followed by exactly n hexadecimal digits
PrefixedHex(s, n) ==
    /\ Len(s) = 2 + n
    /\ SubSeq(s, 1, 2) = <<"0", "x">>
    /\ {s[i] : i \in 3..Len(s)} \subseteq HexChars

Called == norm.pc \in {"returned", "again", "panicked"}

C12_CanonicalText ==
    (Called /\ norm.result[1]) =>
        /\ Len(norm.result[2]) = 2 + HexDigits
        /\ ByteLen(norm.result[2]) = 2 + HexDigits
        /\ Len(norm.input) \in {1 + HexDigits, 2 + HexDigits}
        /\ Len(norm.input) = 2 + HexDigits => norm.result[2] = norm.input
        /\ Len(norm.input) = 1 + HexDigits =>
              norm.result[2] = <<"0", "x", "0">> \o SubSeq(norm.input, 3, Len(norm.input))

\* a 63-digit input was accepted
C12_Witness ==
    /\ norm.pc = "returned" /\ norm.result[1]
    /\ Len(norm.input) = 1 + HexDigits
    /\ norm.result[2] # norm.input

C14_Idempotent ==
    norm.pc \in {"again", "panicked"} =>
        /\ norm.pc = "again"
        /\ norm.again = <<TRUE, norm.result[2]>>

\* the canonical text of a 63-digit input was given back to the function
C14_Witness ==
    /\ norm.pc = "again"
    /\ Len(norm.input) = 1 + HexDigits
    /\ norm.again[1]

(***************************************************************************)
(* Claims about the errors, the waits and the wallet verdict of            *)
(* check_address, checked under Spec.                                      *)
(***************************************************************************)
\* the address has the form is_valid_starknet_address accepts
AddressAccepted(address) ==
    PrefixedHex(address, HexDigits - 1) \/ PrefixedHex(address, HexDigits)

\* the endpoint is absent or is not a URL
EndpointUnusable(options) == options.rpc_url = <<>> \/ options.rpc_url = <<BadUrl>>

ConfigErrors == {"Missing node URL", "relative URL without a base"}

\* C15: when the address passes format validation and the endpoint is absent
\* or not parsable as a URL, check_address returns a propagated error, no
\* result, and makes no remote call.
C15_ConfigErrorNoRemoteCall ==
    \A c \in Calls :
        (task[c].pc \notin {"idle", "start"}
         /\ AddressAccepted(task[c].address) /\ EndpointUnusable(task[c].options))
            => /\ Done(c) /\ task[c].outcome = "Err"
               /\ task[c].error \in ConfigErrors
               /\ task[c].response = NoResponse
               /\ task[c].gateways = <<>> /\ task[c].rpcLog = <<>> /\ task[c].invocations = 0

\* a 63-digit address with an endpoint that is not a URL ended in the error
C15_Witness ==
    \E c \in Calls :
        /\ Done(c) /\ task[c].outcome = "Err"
        /\ PrefixedHex(task[c].address, HexDigits - 1)
        /\ task[c].options.rpc_url = <<BadUrl>>

\* C18: in retry_operation the wait after the failed attempt with index i
\* (0-based, i < retries) lasts exactly i + 1 time units, so the successive
\* waits are 1, 2, 3; no wait is performed after the final failed attempt
\* before the terminal error is returned.
C18_LinearBackoff ==
    \A c \in Calls :
        /\ \A k \in 1..Len(task[c].waits) : task[c].waits[k] = k
        /\ task[c].pc = "sleep" =>
              /\ Len(task[c].waits) = task[c].invocations
              /\ Last(task[c].waits) = task[c].attempt + 1
              /\ task[c].attempt < Retries
        /\ task[c].pc = "invoke" => Len(task[c].waits) = task[c].invocations
        /\ task[c].exhausted =>
              /\ Len(task[c].waits) = Retries
              /\ task[c].invocations = Len(task[c].waits) + 1

\* a retry_operation gave up after the waits 1, 2, 3
C18_Witness ==
    \E c \in Calls :
        /\ task[c].exhausted /\ Done(c)
        /\ task[c].waits = <<1, 2, 3>>

\* C19: every error check_address returns is a configuration error (endpoint
\* absent or unparsable) or an exhausted-retry gateway error; an
\* address-format problem is never surfaced as an error but always yields
\* the negative 'Invalid address format' result, also for an address that
\* passes the 0x + 64 hex digit pattern and cannot be converted to a field
\* element.
C19_ErrorsAreConfigOrGateway ==
    \A c \in Calls :
        /\ (Done(c) /\ task[c].outcome = "Err") =>
              \/ EndpointUnusable(task[c].options) /\ task[c].error \in ConfigErrors
              \/ task[c].exhausted /\ task[c].error = "Max retries reached"
        /\ (Done(c) /\ PrefixedHex(task[c].address, HexDigits) /\ ~parse_address_ok(task[c].address)
             /\ ~EndpointUnusable(task[c].options)) =>
              /\ ReturnedResult(c)
              /\ task[c].response.message = "Invalid address format"

\* C20: check_address returns a result with is_smart_wallet = true only if,
\* during that call, a class definition was fetched for a non-zero class hash
\* and its external entry points contain both the __execute__ and the
\* __validate__ selector.
C20_WalletOnlyForFetchedWalletClass ==
    \A c \in Calls :
        (ReturnedResult(c) /\ task[c].response.is_smart_wallet) =>
            \E i \in ClassAnswers(c) :
                /\ task[c].rpcLog[i].class_hash # 0
                /\ HasBoth(task[c].rpcLog[i].selectors)

\* a wallet result for a Legacy class with exactly the two selectors
C20_Witness ==
    \E c \in Calls :
        /\ ReturnedResult(c) /\ task[c].response.is_smart_wallet
        /\ Last(task[c].rpcLog).method = "get_class"
        /\ Last(task[c].rpcLog).variant = "Legacy"
        /\ Last(task[c].rpcLog).selectors = {required_selectors[1], required_selectors[2]}

(***************************************************************************)
(* Claim about the total of the backoff waits, checked under SpecWaits.    *)
(***************************************************************************)
RECURSIVE Sum(_)
Sum(s) == IF s = <<>> THEN 0 ELSE Head(s) + Sum(Tail(s))

\* C16: counting each backoff wait in its time units, one retry_operation
\* with retries = 3 accumulates at most 1 + 2 + 3 = 6 units, and a whole
\* check_address call accumulates at most 12 units in total across all its
\* remote fetches before it returns a result or a terminal error.
C16_WaitBudget ==
    \A c \in Calls :
        /\ Sum(task[c].waits) <= 6
        /\ task[c].slept <= 12

(***************************************************************************)
(* Claim about concurrent calls, checked under SpecConc.                   *)
(***************************************************************************)
\* what a call hands to its caller
Observed(st) ==
    IF st.outcome = "Ok" THEN <<"Ok", st.response>> ELSE <<"Err", st.error>>

\* is_smart_wallet's verdict read from the node's answers log[i], log[i+1]
Verdict(log, i) ==
    IF log[i].class_hash = 0 THEN FALSE ELSE HasBoth(log[i + 1].selectors)

\* the number of answers that verdict used
Used(log, i) == IF log[i].class_hash = 0 THEN 1 ELSE 2

\* what check_address hands back when it runs alone on the inputs of st and
\* gets the node answers st.rpcLog, giving up (or not) as st did
AloneResult(st) ==
    LET log == st.rpcLog
    IN  IF ~AddressAccepted(st.address)
        THEN <<"Ok", InvalidFormatResponse(NoResponse)>>
        ELSE IF st.options.rpc_url = <<>> THEN <<"Err", "Missing node URL">>
        ELSE IF st.options.rpc_url = <<BadUrl>> THEN <<"Err", "relative URL without a base">>
        ELSE IF ~parse_address_ok(st.address) THEN <<"Err", "Invalid address format">>
        ELSE IF st.exhausted THEN <<"Err", "Max retries reached">>
        ELSE IF log[1].class_hash = 0 THEN <<"Ok", NoContractResponse(NoResponse)>>
        ELSE IF Verdict(log, 2) THEN <<"Ok", WalletResponse(NoResponse)>>
        ELSE IF Verdict(log, 2 + Used(log, 2)) THEN <<"Ok", NeitherResponse(NoResponse)>>
        ELSE <<"Ok", ContractResponse(NoResponse)>>

\* the attempt counter of a running retry_operation counts the call's own failures
OwnAttempts(c) ==
    /\ task[c].pc = "invoke" => task[c].attempt = task[c].invocations
    /\ task[c].pc = "sleep" => task[c].attempt + 1 = task[c].invocations
    /\ task[c].exhausted => task[c].attempt = Retries /\ task[c].invocations = Retries + 1

\* C17: two check_address calls running concurrently share no mutable state:
\* in every interleaving a step of one call leaves the other call's state as
\* it was, each call's result or error is the one it gets alone from the same
\* node answers to its own requests, and each call's retry attempt counter
\* counts only its own failures.
C17_CallsIndependent ==
    /\ [](\A c \in ConcCalls :
            /\ OwnAttempts(c)
            /\ Done(c) => Observed(task[c]) = AloneResult(task[c]))
    /\ [][\A c \in ConcCalls :
            task'[c] # task[c] => \A d \in ConcCalls \ {c} : task'[d] = task[d]]_vars

\* one call gave up while the other, after a failure of its own, got a wallet result
C17_Witness ==
    \E c \in ConcCalls : \E d \in ConcCalls \ {c} :
        /\ Done(c) /\ task[c].exhausted
        /\ ReturnedResult(d) /\ task[d].response.is_smart_wallet
        /\ task[d].attempt > 0

(***************************************************************************)
(* Claim about termination, checked under SpecLive.                        *)
(***************************************************************************)
\* C21: provided every remote attempt and every backoff wait completes,
\* every check_address call eventually returns (a result or an error) for
\* every input and every sequence of node successes and failures; the
\* attempt counter of a retry loop only increases and never exceeds the
\* retry budget, so no call retries forever.
C21_EventuallyReturns ==
    /\ \A c \in Calls : <>(Done(c) /\ task[c].outcome \in {"Ok", "Err"})
    /\ [](\A c \in Calls : task[c].attempt <= Retries)
    /\ [][\A c \in Calls :
            task'[c].gateways = task[c].gateways => task'[c].attempt >= task[c].attempt]_vars

\* a call returned after five retry loops, the last one answered on its final attempt
C21_Witness ==
    \E c \in Calls :
        /\ ReturnedResult(c)
        /\ Len(task[c].gateways) = 5
        /\ task[c].attempt = Retries

====
